---- MODULE Spec2Model ----
(***************************************************************************)
(* Environment adapters of TWISTER-main/nnet/envs: AtariEnv and            *)
(* DeepMindControlEnv.  One adapter object is modelled; its constructor    *)
(* parameters are chosen in Init and never change.  The wrapped simulator  *)
(* is a black box: every observation, reward and termination flag it       *)
(* returns is an input of the action that calls it.                        *)
(*                                                                         *)
(* A tensor in (C, H, W) layout is a record [ch, hw]: ch is the sequence   *)
(* of its channel planes, hw its spatial size.  A plane <<f, k>> is colour *)
(* plane k of simulator frame f.  A simulator array in (H, W[, C]) layout  *)
(* is a record [frame, shape].                                             *)
(***************************************************************************)
EXTENDS Integers, Sequences, FiniteSets

\* ---------------------------------------------------------------- bounds
MaxH == 2          \* history_frames ranges over 1..MaxH
MaxR == 2          \* action_repeat ranges over 1..MaxR
MaxSimSteps == 4   \* simulator steps explored after a reset()
AtariNumActions == 2   \* env.action_space.n of the modelled game
MaxM == 2          \* records in one batch handed to CollateFn: 1..MaxM
MaxSel == 2        \* slots one collate specification selects: 1..MaxSel

\* ------------------------------------------------------ program constants
clip_low == -1
clip_high == 1
num_actions == 1       \* Pendulum / Acrobot

Frames == {1, 2}
Rewards == {0, 1}
ImgSizes == {<<2, 2>>, <<2, 3>>}

VARIABLES
    adapter,                \* "atari" or "dmc": which class the object is
    grayscale_obs,          \* AtariEnv.grayscale_obs
    terminal_on_life_loss,  \* AtariEnv.terminal_on_life_loss
    recording,              \* episode_saving_path is not None
    history_frames,
    action_repeat,
    img_size,
    initialized,            \* reset() has run: history / episode_score exist
    history,                \* self.history
    episode_score,          \* self.episode_score
    episode_video,          \* self.episode_video      [kind, items]
    episode_video_pre,      \* self.episode_video_pre  [kind, items]
    ret,                    \* outcome of the last call: Transition or raised error
    simLog,                 \* simulator substeps run by the last call
    written,                \* video files written by the last call
    calls,                  \* step() calls since the last reset()
    retSum,                 \* rewards of the step Transitions returned since reset()
    episodeFrames,          \* simulator frames recorded since the last reset()
    inputs_params,          \* CollateFn.inputs_params
    targets_params,         \* CollateFn.targets_params
    samples,                \* the batch given to the last CollateFn.forward call
    out                     \* what that call returned, or the error it raised

params == <<adapter, grayscale_obs, terminal_on_life_loss, recording,
            history_frames, action_repeat, img_size>>
vars == <<adapter, grayscale_obs, terminal_on_life_loss, recording,
          history_frames, action_repeat, img_size, initialized, history,
          episode_score, episode_video, episode_video_pre, ret,
          simLog, written, calls, retSum, episodeFrames,
          inputs_params, targets_params, samples, out>>
envVars == <<adapter, grayscale_obs, terminal_on_life_loss, recording,
             history_frames, action_repeat, img_size, initialized, history,
             episode_score, episode_video, episode_video_pre, ret,
             simLog, written, calls, retSum, episodeFrames>>
collateVars == <<inputs_params, targets_params, samples, out>>

\* ---------------------------------------------------------------- tensors
RECURSIVE SumSeq(_)
SumSeq(s) == IF s = <<>> THEN 0 ELSE s[1] + SumSeq(Tail(s))

EmptyTensor == [ch |-> <<>>, hw |-> <<0, 0>>]

\* tensor.shape of a (C, H, W) tensor
Shape(t) == <<Len(t.ch), t.hw[1], t.hw[2]>>

\* torch.tensor(bool, dtype=float32)
B2F(b) == IF b THEN 1 ELSE 0

\* state.unsqueeze(dim=0) of a 2-D (H, W) array
Unsqueeze0(obs) ==
    [ch |-> << <<obs.frame, 1>> >>, hw |-> <<obs.shape[1], obs.shape[2]>>]

\* array.permute(2, 0, 1): (H, W, C) -> (C, H, W)
Permute201(obs) ==
    [ch |-> [k \in 1..obs.shape[3] |-> <<obs.frame, k>>],
     hw |-> <<obs.shape[1], obs.shape[2]>>]

\* tensor.permute(1, 2, 0): (C, H, W) -> (H, W, C)
Permute120(t) ==
    [frame |-> t.ch[1][1], shape |-> <<t.hw[1], t.hw[2], Len(t.ch)>>]

RECURSIVE RepeatCh(_, _)
RepeatCh(ch, n) == IF n <= 0 THEN <<>> ELSE ch \o RepeatCh(ch, n - 1)

\* tensor.repeat(n, 1, 1): n copies along the channel axis
Repeat(t, n) == [ch |-> RepeatCh(t.ch, n), hw |-> t.hw]

\* tensor[n:]
SliceFrom(t, n) == [ch |-> SubSeq(t.ch, n + 1, Len(t.ch)), hw |-> t.hw]

\* torch.cat([a, b], dim=0)
Cat(a, b) == [ch |-> a.ch \o b.ch, hw |-> b.hw]

\* ----------------------------------------------------- simulator outputs
\* AtariPreprocessing is built with screen_size=img_size[0] only: its frames
\* are square, and only square img_size values are explored for AtariEnv.
AtariObs(f) ==
    IF grayscale_obs
    THEN [frame |-> f, shape |-> <<img_size[1], img_size[1]>>]
    ELSE [frame |-> f, shape |-> <<img_size[1], img_size[1], 3>>]

\* pixels.Wrapper renders height=img_size[0], width=img_size[1], RGB.
DmcPixels(f) == [frame |-> f, shape |-> <<img_size[1], img_size[2], 3>>]

\* ------------------------------------------------------------ obs_space
AtariObsSpace ==
    IF grayscale_obs
    THEN <<1 * history_frames, img_size[1], img_size[2]>>
    ELSE <<3 * history_frames, img_size[1], img_size[2]>>

DmcObsSpace == <<3, img_size[1], img_size[2]>>

obs_space == IF adapter = "atari" THEN AtariObsSpace ELSE DmcObsSpace

\* ------------------------------------------------------- call outcomes
Unset == [kind |-> "unset", items |-> <<>>]
EmptyList == [kind |-> "list", items |-> <<>>]

NoReturn ==
    [kind |-> "none", op |-> "none", state |-> EmptyTensor, reward |-> 0,
     done |-> 0, is_first |-> 0, is_last |-> 0]

Transition(op, state, reward, done, is_first, is_last) ==
    [kind |-> "transition", op |-> op, state |-> state, reward |-> reward,
     done |-> done, is_first |-> is_first, is_last |-> is_last]

Raised(op, error) ==
    [kind |-> error, op |-> op, state |-> EmptyTensor, reward |-> 0,
     done |-> 0, is_first |-> 0, is_last |-> 0]

\* One call into the wrapped simulator and what it returned.
SimCall(call, action, f, r, last, game_over) ==
    [call |-> call, action |-> action, frame |-> f, reward |-> r,
     last |-> last, game_over |-> game_over]

\* ------------------------------------------------------------ CollateFn
\* A collate specification is [kind, keys, axes]: entry k selects slot
\* axes[k]; keys are the names of a dict (in insertion order), <<>> otherwise.
\* A value is a stacked tensor, a container of stacked tensors, or an error.
Slots == {0, 1}
Vals == {1, 2}
\* Dict keys: 0 is the Python key 0, any other number stands for a name.
Keys == {0, 1}

CTensor(shape, rows) ==
    [kind |-> "tensor", shape |-> shape, rows |-> rows, keys |-> <<>>, items |-> <<>>]

CStruct(kind, keys, items) ==
    [kind |-> kind, shape |-> <<>>, rows |-> <<>>, keys |-> keys, items |-> items]

CRaised(error) == CStruct(error, <<>>, <<>>)

CNone == CStruct("none", <<>>, <<>>)

IsCError(v) == v.kind \notin {"tensor", "dict", "list", "tuple"}

\* Shape of the tensor a record holds in slot a.
SlotShape(a) == [i \in 1..a |-> 2]

Records ==
    {[a \in Slots |-> [shape |-> SlotShape(a), v |-> f[a]]] : f \in [Slots -> Vals]}

\* A batch holds at least one record.
Batches == UNION {[1..m -> Records] : m \in 1..MaxM}

\* A specification selects at least one slot.
AxisSeqs == UNION {[1..n -> Slots] : n \in 1..MaxSel}

KeySeqs(n) == {k \in [1..n -> Keys] : \A i, j \in 1..n : k[i] = k[j] => i = j}

CollateParams ==
    {[kind |-> kd, keys |-> <<>>, axes |-> a] : kd \in {"list", "tuple"}, a \in AxisSeqs}
    \cup UNION {{[kind |-> "dict", keys |-> k, axes |-> a] : k \in KeySeqs(Len(a))}
                : a \in AxisSeqs}

\* inputs_params=[{"axis": 0}], targets_params=[{"axis": 1}]
DefaultInputsParams == [kind |-> "list", keys |-> <<>>, axes |-> <<0>>]
DefaultTargetsParams == [kind |-> "list", keys |-> <<>>, axes |-> <<1>>]

\* torch.stack(collate, axis=0) of a non-empty list of equal-shaped tensors
TorchStack(list) ==
    CTensor(<<Len(list)>> \o list[1].shape, [i \in 1..Len(list) |-> list[i].v])

\* collates[0]: position 0 of a list or tuple, key 0 of a dict
Index0(collates) ==
    IF collates.kind = "dict"
    THEN IF \E k \in 1..Len(collates.keys) : collates.keys[k] = 0
         THEN collates.items[CHOOSE k \in 1..Len(collates.keys) : collates.keys[k] = 0]
         ELSE CRaised("KeyError")
    ELSE collates.items[1]

\* CollateFn.collate
Collate(batch, collate_params) ==
    LET n == Len(collate_params.axes)
        items == [k \in 1..n |->
                    TorchStack([i \in 1..Len(batch) |-> batch[i][collate_params.axes[k]]])]
        collates == CStruct(collate_params.kind, collate_params.keys, items)
    IN  IF n = 1 THEN Index0(collates) ELSE collates

NoOutput == [kind |-> "none", inputs |-> CNone, targets |-> CNone]

\* CollateFn.forward: the dict is built inputs first; an error leaves nothing.
ForwardResult(batch) ==
    LET inputs == Collate(batch, inputs_params)
        targets == Collate(batch, targets_params)
    IN  IF IsCError(inputs) THEN [kind |-> inputs.kind, inputs |-> CNone, targets |-> CNone]
        ELSE IF IsCError(targets)
        THEN [kind |-> targets.kind, inputs |-> CNone, targets |-> CNone]
        ELSE [kind |-> "returned", inputs |-> inputs, targets |-> targets]

Init ==
    /\ adapter \in {"atari", "dmc"}
    /\ grayscale_obs \in (IF adapter = "atari" THEN BOOLEAN ELSE {FALSE})
    /\ terminal_on_life_loss \in (IF adapter = "atari" THEN BOOLEAN ELSE {FALSE})
    /\ recording \in BOOLEAN
    /\ history_frames \in 1..MaxH
    /\ action_repeat \in (IF adapter = "dmc" THEN 1..MaxR ELSE {4})
    /\ img_size \in (IF adapter = "dmc" THEN ImgSizes
                     ELSE {sz \in ImgSizes : sz[1] = sz[2]})
    /\ initialized = FALSE
    /\ history = EmptyTensor
    /\ episode_score = 0
    /\ episode_video = Unset
    /\ episode_video_pre = Unset
    /\ ret = NoReturn
    /\ simLog = <<>>
    /\ written = <<>>
    /\ calls = 0
    /\ retSum = 0
    /\ episodeFrames = <<>>
    /\ inputs_params = DefaultInputsParams
    /\ targets_params = DefaultTargetsParams
    /\ samples = <<>>
    /\ out = NoOutput

\* ---------------------------------------------------------------- reset
\* AtariEnv.preprocess: array -> (C, H, W) tensor
AtariToCHW(obs) == IF grayscale_obs THEN Unsqueeze0(obs) ELSE Permute201(obs)

\* Plausible slip: is_last copies done also under terminal_on_life_loss.
IsLast_CopyDone(done, game_over) == B2F(done)

\* AtariEnv.preprocess: is_last
IsLast(done, game_over) ==
    IF terminal_on_life_loss THEN B2F(game_over) ELSE B2F(done)

\* Plausible slip: off by one in the history_frames test.
AtariResetHistory_OffByOne(state) ==
    IF history_frames > 2 THEN Repeat(state, history_frames) ELSE state

AtariResetHistory(state) ==
    IF history_frames > 1 THEN Repeat(state, history_frames) ELSE state

DmcResetHistory(obs_pixels) == Repeat(obs_pixels, history_frames)

\* Plausible slip: a list that already exists is kept, not replaced.
ResetBuffer_KeepList(buf) ==
    IF recording /\ buf.kind # "list" THEN EmptyList ELSE buf

\* if self.episode_saving_path is not None: self.episode_video = []
ResetBuffer(buf) == IF recording THEN EmptyList ELSE buf

Reset ==
    \E f \in Frames :
        LET state == IF adapter = "atari"
                     THEN AtariResetHistory(AtariToCHW(AtariObs(f)))
                     ELSE DmcResetHistory(Permute201(DmcPixels(f)))
        IN  /\ history' = state
            /\ episode_video' = ResetBuffer(episode_video)
            /\ episode_video_pre' = ResetBuffer(episode_video_pre)
            /\ episode_score' = 0
            /\ initialized' = TRUE
            /\ ret' = Transition("reset", state, 0, B2F(FALSE), B2F(TRUE), B2F(FALSE))
            /\ simLog' = << SimCall("reset", <<>>, f, 0, FALSE, FALSE) >>
            /\ written' = <<>>
            /\ calls' = 0
            /\ retSum' = 0
            /\ episodeFrames' = <<>>
            /\ UNCHANGED <<params, collateVars>>

\* ----------------------------------------------------------------- step
\* Actions a caller may pass: a valid index, a negative one, one past the
\* last, and a two-element tensor.
AtariActionInputs == << <<0>>, <<-1>>, <<AtariNumActions>>, <<0, 1>> >>

\* Actions a caller may pass: vectors of length 0 and 1.
DmcActionInputs == << <<0>>, <<-2>>, <<2>>, <<>> >>

\* The simulator indexes its action set with the integer it is handed.
SimAccepts(a) == -AtariNumActions <= a /\ a < AtariNumActions

\* AtariPreprocessing(terminal_on_life_loss=...): done reported by env.step
AtariDone(game_over, life_lost) ==
    game_over \/ (terminal_on_life_loss /\ life_lost)

\* env.env._get_image() / get_obs(): frame at the simulator's native size
RawFrame(f) == [frame |-> f, shape |-> <<>>]

\* list.append
ListAppend(buf, item) == [kind |-> "list", items |-> Append(buf.items, item)]

\* torch.stack(list, dim=0)
Stack(buf) == [kind |-> "tensor", items |-> buf.items]

\* video.unsqueeze(dim=-1).repeat(1, 1, 1, 3) per frame
GrayToRGB(obs) == [frame |-> obs.frame, shape |-> <<obs.shape[1], obs.shape[2], 3>>]

VideoFile(score, suffix, video) ==
    [score |-> score, suffix |-> suffix, video |-> video]

AtariWriteVideos(score, video, video_pre) ==
    << VideoFile(score, "", video.items),
       VideoFile(score, "_pre",
                 IF grayscale_obs
                 THEN [i \in 1..Len(video_pre.items) |-> GrayToRGB(video_pre.items[i])]
                 ELSE video_pre.items) >>

DmcWriteVideos(score, video, video_pre) ==
    << VideoFile(score, "", video.items),
       VideoFile(score, "_pre", video_pre.items) >>

\* Plausible slip: one channel is dropped whatever the colour mode.
AtariShift_DropOne(hist, state) ==
    IF history_frames > 1 THEN Cat(SliceFrom(hist, 1), state) ELSE state

\* AtariEnv.step: concat history frames along channels
AtariShift(hist, state) ==
    IF history_frames > 1
    THEN IF grayscale_obs
         THEN Cat(SliceFrom(hist, 1), state)
         ELSE Cat(SliceFrom(hist, 3), state)
    ELSE state

\* Plausible slip: the oldest frame is never dropped.
DmcShift_NoDrop(hist, obs_pixels) == Cat(hist, obs_pixels)

\* DeepMindControlEnv.step: pixel control RGB
DmcShift(hist, obs_pixels) == Cat(SliceFrom(hist, 3), obs_pixels)

\* action.clip(clip_low, clip_high)
Clip(action) ==
    [i \in 1..Len(action) |->
        IF action[i] < clip_low THEN clip_low
        ELSE IF action[i] > clip_high THEN clip_high
        ELSE action[i]]

RECURSIVE AccRewardFrom(_, _)
AccRewardFrom(reward, log) ==
    IF log = <<>> THEN reward
    ELSE AccRewardFrom(reward + Head(log).reward, Tail(log))

\* Plausible slip: the reward is overwritten, not accumulated.
AccReward_Overwrite(log) == log[Len(log)].reward

\* reward = 0.0; for ...: reward += step_reward
AccReward(log) == AccRewardFrom(0, log)

\* done = False; for ...: done = done or step_done
AccDone(log) == \E i \in 1..Len(log) : log[i].last

RECURSIVE AppendAll(_, _)
AppendAll(buf, items) ==
    IF items = <<>> THEN buf
    ELSE AppendAll(ListAppend(buf, Head(items)), Tail(items))

\* Plausible slip: the score is updated only after the recording append.
StepRaises_ScoreAfterAppend(error, log, score) ==
    /\ ret' = Raised("step", error)
    /\ simLog' = log
    /\ episode_score' = episode_score
    /\ written' = <<>>
    /\ UNCHANGED <<initialized, history, episode_video, episode_video_pre, retSum,
                   episodeFrames>>

\* The call raises: nothing is returned; only what ran before the raise stays.
StepRaises(error, log, score) ==
    /\ ret' = Raised("step", error)
    /\ simLog' = log
    /\ episode_score' = score
    /\ written' = <<>>
    /\ UNCHANGED <<initialized, history, episode_video, episode_video_pre, retSum,
                   episodeFrames>>

\* Simulator steps one step() call may take.
StepCost == IF adapter = "dmc" THEN action_repeat ELSE 1

SubOuts == [frame : Frames, reward : Rewards, last : BOOLEAN]

AtariStep ==
    /\ adapter = "atari"
    /\ (calls + 1) * StepCost <= MaxSimSteps
    /\ calls' = calls + 1
    /\ UNCHANGED <<params, collateVars>>
    /\ \E k \in 1..Len(AtariActionInputs) :
        LET action == AtariActionInputs[k] IN
        IF Len(action) # 1
        THEN StepRaises("ValueError", <<>>, episode_score)
        ELSE IF ~SimAccepts(action[1])
        THEN StepRaises("IndexError", <<>>, episode_score)
        ELSE \E f \in Frames, r \in Rewards, game_over \in BOOLEAN, life_lost \in BOOLEAN :
            LET done == AtariDone(game_over, life_lost)
                obs == AtariObs(f)
                log == << SimCall("step", action, f, r, done, game_over) >>
                score == episode_score + r
                video == IF recording THEN ListAppend(episode_video, RawFrame(f))
                         ELSE episode_video
                video_pre == IF recording THEN ListAppend(episode_video_pre, obs)
                             ELSE episode_video_pre
                save == done /\ recording
                state == AtariShift(history, AtariToCHW(obs))
            IN  IF ~initialized
                THEN StepRaises("AttributeError", log, episode_score)
                ELSE IF recording /\ episode_video.kind # "list"
                THEN StepRaises("AttributeError", log, score)
                ELSE /\ episode_score' = score
                     /\ episode_video' = IF save THEN Stack(video) ELSE video
                     /\ episode_video_pre' = IF save THEN Stack(video_pre) ELSE video_pre
                     /\ written' = IF save
                                   THEN AtariWriteVideos(score, Stack(video), Stack(video_pre))
                                   ELSE <<>>
                     /\ history' = state
                     /\ ret' = Transition("step", state, r, B2F(done), B2F(FALSE),
                                          IsLast(done, game_over))
                     /\ simLog' = log
                     /\ retSum' = retSum + r
                     /\ episodeFrames' = IF recording THEN Append(episodeFrames, f)
                                         ELSE episodeFrames
                     /\ UNCHANGED initialized

DmcStep ==
    /\ adapter = "dmc"
    /\ (calls + 1) * StepCost <= MaxSimSteps
    /\ calls' = calls + 1
    /\ UNCHANGED <<params, collateVars>>
    /\ \E k \in 1..Len(DmcActionInputs) :
        LET action == DmcActionInputs[k] IN
        IF Len(action) # num_actions
        THEN StepRaises("AssertionError", <<>>, episode_score)
        ELSE IF recording /\ episode_video.kind # "list"
        THEN \E s \in SubOuts :
                StepRaises("AttributeError",
                           << SimCall("step", Clip(action), s.frame, s.reward, s.last, s.last) >>,
                           episode_score)
        ELSE \E subs \in [1..action_repeat -> SubOuts] :
            LET log == [i \in 1..action_repeat |->
                          SimCall("step", Clip(action), subs[i].frame, subs[i].reward,
                                  subs[i].last, subs[i].last)]
                reward == AccReward(log)
                done == AccDone(log)
                score == episode_score + reward
                obs_pixels == Permute201(DmcPixels(log[action_repeat].frame))
                video == IF recording
                         THEN AppendAll(episode_video,
                                        [i \in 1..action_repeat |-> RawFrame(log[i].frame)])
                         ELSE episode_video
                video_pre == IF recording
                             THEN AppendAll(episode_video_pre,
                                      [i \in 1..action_repeat |->
                                          Permute120(Permute201(DmcPixels(log[i].frame)))])
                             ELSE episode_video_pre
                save == done /\ recording
                state == DmcShift(history, obs_pixels)
            IN  IF ~initialized
                THEN StepRaises("AttributeError", log, episode_score)
                ELSE /\ episode_score' = score
                     /\ episode_video' = IF save THEN Stack(video) ELSE video
                     /\ episode_video_pre' = IF save THEN Stack(video_pre) ELSE video_pre
                     /\ written' = IF save
                                   THEN DmcWriteVideos(score, Stack(video), Stack(video_pre))
                                   ELSE <<>>
                     /\ history' = state
                     /\ ret' = Transition("step", state, reward, B2F(FALSE), B2F(FALSE),
                                          B2F(FALSE))
                     /\ simLog' = log
                     /\ retSum' = retSum + reward
                     /\ episodeFrames' =
                            IF recording
                            THEN episodeFrames \o [i \in 1..action_repeat |-> log[i].frame]
                            ELSE episodeFrames
                     /\ UNCHANGED initialized

\* -------------------------------------------------------------- forward
Forward ==
    \E batch \in Batches :
        /\ samples' = batch
        /\ out' = ForwardResult(batch)
        /\ UNCHANGED <<inputs_params, targets_params, envVars>>

\* ------------------------------------------------------------- behaviour
Next == Reset \/ AtariStep \/ DmcStep

Spec == Init /\ [][Next]_vars

\* A CollateFn object: its two specifications are constructor arguments.
InitCollate ==
    /\ inputs_params \in CollateParams
    /\ targets_params \in CollateParams
    /\ samples = <<>>
    /\ out = NoOutput
    /\ adapter = "atari" /\ grayscale_obs = FALSE /\ terminal_on_life_loss = FALSE
    /\ recording = FALSE /\ history_frames = 1 /\ action_repeat = 4
    /\ img_size = <<2, 2>>
    /\ initialized = FALSE /\ history = EmptyTensor /\ episode_score = 0
    /\ episode_video = Unset /\ episode_video_pre = Unset /\ ret = NoReturn
    /\ simLog = <<>> /\ written = <<>> /\ calls = 0 /\ retSum = 0
    /\ episodeFrames = <<>>

NextCollate == Forward

SpecCollate == InitCollate /\ [][NextCollate]_vars

\* ================================================================ claims
\* Per-frame channel count C of the adapter.
Chans == IF adapter = "atari" /\ grayscale_obs THEN 1 ELSE 3

Returned(op) == ret.kind = "transition" /\ ret.op = op

\* The single-frame observation the simulator returned last, as (C, H, W).
NewestObs ==
    LET c == simLog[Len(simLog)]
    IN  IF adapter = "atari" THEN AtariToCHW(AtariObs(c.frame))
        ELSE Permute201(DmcPixels(c.frame))

\* Frame-slice i of a history-stacked tensor.
FrameSlice(t, i) == SubSeq(t.ch, (i - 1) * Chans + 1, i * Chans)

\* Some simulator substep of the last call reported termination.
SubstepTerminated == \E i \in 1..Len(simLog) : simLog[i].last

\* The action handed to the simulator lies in the declared action space.
InActionSpace(action) ==
    IF adapter = "atari"
    THEN Len(action) = 1 /\ action[1] \in 0..(AtariNumActions - 1)
    ELSE /\ Len(action) = num_actions
         /\ \A i \in 1..Len(action) : clip_low <= action[i] /\ action[i] <= clip_high

\* C1: every reset() returns is_first = 1, reward = 0, done = 0, is_last = 0
\* and a state that is the History Buffer: history_frames frame-slices, each
\* equal to the first post-reset observation.
C1_ResetTransition ==
    ret.op = "reset" =>
        /\ ret.kind = "transition"
        /\ ret.is_first = 1 /\ ret.reward = 0 /\ ret.done = 0 /\ ret.is_last = 0
        /\ ret.state = history
        /\ Len(history.ch) = history_frames * Chans
        /\ history.hw = NewestObs.hw
        /\ \A i \in 1..history_frames : FrameSlice(history, i) = NewestObs.ch

C1_Witness ==
    /\ Returned("reset") /\ adapter = "atari" /\ ~grayscale_obs
    /\ history_frames = 2 /\ Len(history.ch) = 6

\* C2: the done field returned by a continuous-control step() is true iff
\* at least one of its action_repeat simulator substeps reported termination.
C2_DoneIsOrOfSubsteps ==
    (adapter = "dmc" /\ Returned("step")) => (ret.done = 1 <=> SubstepTerminated)

\* C3: the reward returned by a continuous-control step() is the sum of the
\* rewards of the action_repeat substeps of that call, counted from zero.
C3_RewardIsSumOfSubsteps ==
    (adapter = "dmc" /\ Returned("step")) =>
        /\ Len(simLog) = action_repeat
        /\ ret.reward = SumSeq([i \in 1..Len(simLog) |-> simLog[i].reward])

C3_Witness ==
    /\ adapter = "dmc" /\ Returned("step") /\ action_repeat = 2 /\ calls = 2
    /\ ret.reward = 2 /\ episode_score > ret.reward

\* C4: a step() that returns keeps the last (H-1)*C channels of the previous
\* History Buffer as the first (H-1)*C channels of the new one, and its last
\* C channels are the newest single-frame observation.
C4_SlidingWindow ==
    [][ (ret'.kind = "transition" /\ ret'.op = "step") =>
            LET n == (history_frames - 1) * Chans
                m == history_frames * Chans
            IN  /\ Len(history'.ch) = m
                /\ SubSeq(history'.ch, 1, n) = SubSeq(history.ch, Chans + 1, m)
                /\ SubSeq(history'.ch, n + 1, m) = NewestObs'.ch ]_vars

C4_Witness ==
    /\ Returned("step") /\ adapter = "atari" /\ ~grayscale_obs /\ history_frames = 2
    /\ calls = 2
    /\ FrameSlice(history, 1) # FrameSlice(history, 2)

\* C5: in the Atari adapter is_last equals done when terminal_on_life_loss is
\* disabled, and is the simulator's game-over flag when it is enabled.
C5_LifeLossDistinction ==
    (adapter = "atari" /\ Returned("step")) =>
        IF terminal_on_life_loss
        THEN ret.is_last = B2F(simLog[1].game_over)
        ELSE ret.is_last = ret.done

\* A life was lost but the game is not over.
C5_Witness ==
    /\ adapter = "atari" /\ terminal_on_life_loss /\ Returned("step")
    /\ ret.done = 1 /\ ret.is_last = 0

\* C6: with recording enabled, an episode of N step() calls whose last step
\* reports termination writes exactly two video files of N frames each and
\* leaves both recording buffers empty sequences.
C6_RecordingRoundTrip ==
    (recording /\ Returned("step") /\ SubstepTerminated) =>
        /\ Len(written) = 2
        /\ \A i \in 1..Len(written) : Len(written[i].video) = calls
        /\ episode_video = EmptyList
        /\ episode_video_pre = EmptyList

\* C7: the episode score is the sum of the rewards of the step Transitions
\* returned since the last reset(), is zero right after reset(), and the score
\* in a video file name includes the terminating step's reward.
C7_ScoreIsSumOfReturned ==
    initialized =>
        /\ episode_score = retSum
        /\ (ret.op = "reset" => episode_score = 0)
        /\ \A i \in 1..Len(written) : written[i].score = retSum

\* C8: every Transition returned by reset() or step() has a state with
\* exactly H*C channels and the simulator frames' spatial size.
C8_ObservationShape ==
    ret.kind = "transition" =>
        /\ Len(ret.state.ch) = history_frames * Chans
        /\ ret.state.hw = NewestObs.hw

C8_Witness ==
    /\ adapter = "dmc" /\ Returned("step") /\ history_frames = 2 /\ calls = 2
    /\ Shape(ret.state) = <<6, img_size[1], img_size[2]>>

\* C9: obs_space() declares (C*H, height, width), the shape of the state of
\* every Transition returned by reset() and step().
C9_ObsSpaceAgrees ==
    ret.kind = "transition" =>
        /\ obs_space = <<Chans * history_frames, img_size[1], img_size[2]>>
        /\ obs_space = Shape(ret.state)

\* C10: a step() after reset() drives the simulator only with an action of
\* the declared action space (continuous actions after clipping); any other
\* action raises before the first substep.
C10_InvalidActionRejected ==
    (initialized /\ ret.op = "step") =>
        \A i \in 1..Len(simLog) : InActionSpace(simLog[i].action)

\* C11: video files are written only by a step() whose done flag is true, and
\* that step returns its Transition with the files written; a reset() writes
\* nothing, and a written video holds exactly the frames recorded since the
\* last reset(), none of an abandoned episode.
C11_FlushOnlyAtEpisodeEnd ==
    written # <<>> =>
        /\ recording /\ Returned("step") /\ SubstepTerminated
        /\ (adapter = "atari" => ret.done = 1)
        /\ Len(written) = 2
        /\ \A i \in 1..Len(written) :
              /\ Len(written[i].video) = Len(episodeFrames)
              /\ \A j \in 1..Len(episodeFrames) :
                    written[i].video[j].frame = episodeFrames[j]

\* A recording is flushed by the first step after a reset().
C11_Witness ==
    /\ written # <<>> /\ recording /\ Returned("step") /\ calls = 1
    /\ Len(written[1].video) = StepCost

\* C14: with recording enabled, a step() issued after the videos were flushed
\* and before the next reset() returns no Transition and leaves the History
\* Buffer and the recording buffers as they were; when its action reaches the
\* simulator it raises at the recording append, after exactly one simulator
\* step, with the episode score already updated in the Atari adapter and not
\* in the continuous-control adapter.
C14_StepAfterFlushRaises ==
    [][ (recording /\ episode_video.kind = "tensor" /\ ret'.op = "step") =>
            /\ ret'.kind # "transition"
            /\ history' = history
            /\ episode_video' = episode_video
            /\ episode_video_pre' = episode_video_pre
            /\ written' = <<>>
            /\ IF simLog' # <<>>
               THEN /\ ret'.kind = "AttributeError"
                    /\ Len(simLog') = 1
                    /\ episode_score' = IF adapter = "atari"
                                        THEN episode_score + simLog'[1].reward
                                        ELSE episode_score
               ELSE /\ ret'.kind \in {"ValueError", "IndexError", "AssertionError"}
                    /\ episode_score' = episode_score ]_vars

\* A step after a life-loss flush raised with the score already updated.
C14_Witness ==
    /\ adapter = "atari" /\ terminal_on_life_loss /\ recording /\ initialized
    /\ episode_video.kind = "tensor"
    /\ ret.kind = "AttributeError" /\ ret.op = "step"
    /\ simLog[1].reward = 1 /\ episode_score = retSum + 1

\* C15: a continuous-control step() with an action of the declared shape
\* always runs exactly action_repeat simulator substeps, all with the same
\* clipped action; the substeps after one that reported termination still
\* run, every reward is added, every frame is recorded, and the observation
\* pushed into the History Buffer is the last substep's.
C15_AllSubstepsRun ==
    (adapter = "dmc" /\ initialized /\ ret.op = "step" /\ ret.kind # "AssertionError") =>
        /\ Len(simLog) = action_repeat
        /\ \A i \in 1..Len(simLog) :
              simLog[i].action = simLog[1].action /\ InActionSpace(simLog[i].action)
        /\ Returned("step") =>
              /\ ret.reward = SumSeq([i \in 1..Len(simLog) |-> simLog[i].reward])
              /\ FrameSlice(history, history_frames) = NewestObs.ch
              /\ recording =>
                    \A i \in 1..action_repeat :
                        episode_video.items[Len(episode_video.items) - action_repeat + i].frame
                            = simLog[i].frame

\* The stacked array of slot a over the batch, record order kept.
StackedSlot(a) ==
    [kind |-> "tensor", shape |-> <<Len(samples)>> \o SlotShape(a),
     rows |-> [i \in 1..Len(samples) |-> samples[i][a].v],
     keys |-> <<>>, items |-> <<>>]

\* A side with one selected slot yields the bare stacked array.
Collapses(collate_params, result) ==
    Len(collate_params.axes) = 1 => result = StackedSlot(collate_params.axes[1])

\* A side with n >= 2 selected slots yields a container of the specification's
\* kind, keys and order, each entry the stacked array of its slot.
Stacks(collate_params, result) ==
    Len(collate_params.axes) >= 2 =>
        /\ result.kind = collate_params.kind
        /\ result.keys = collate_params.keys
        /\ Len(result.items) = Len(collate_params.axes)
        /\ \A k \in 1..Len(collate_params.axes) :
              result.items[k] = StackedSlot(collate_params.axes[k])

\* C12: for a mapping, a list and a tuple alike, a specification selecting
\* exactly one slot collates to the bare stacked array.
C12_SingleSlotCollapses ==
    out.kind # "none" =>
        /\ Collapses(inputs_params, out.inputs)
        /\ Collapses(targets_params, out.targets)

\* C13: a specification selecting n >= 2 slots collates to a structure of its
\* own kind and order whose entries stack the records slot by slot, for the
\* inputs and for the targets, each whatever the other specification is.
C13_StacksPerSlot ==
    out.kind # "none" =>
        /\ Stacks(inputs_params, out.inputs)
        /\ Stacks(targets_params, out.targets)

====
